---------------------------- MODULE Spec2Model ----------------------------
(***************************************************************************)
(* A model of agentseenoevil: the Redactor class (constructor,             *)
(* loadEnvSecrets, redact, clean, hasSecrets, createStream) and the        *)
(* pattern catalogues of patterns.ts.                                      *)
(*                                                                         *)
(* A JavaScript string is a sequence of one-character strings.  A RegExp   *)
(* is a record [parts, flags]: parts is the sequence of the regex's items, *)
(* matched left to right with JavaScript's backtracking order (greedy      *)
(* quantifiers, alternatives in written order).                            *)
(***************************************************************************)
EXTENDS Integers, Sequences, FiniteSets, TLC

(***************************************************************************)
(* Characters                                                              *)
(***************************************************************************)
LowerSeq == <<"a","b","c","d","e","f","g","h","i","j","k","l","m",
              "n","o","p","q","r","s","t","u","v","w","x","y","z">>
UpperSeq == <<"A","B","C","D","E","F","G","H","I","J","K","L","M",
              "N","O","P","Q","R","S","T","U","V","W","X","Y","Z">>
Lower == {LowerSeq[i] : i \in 1..26}
Upper == {UpperSeq[i] : i \in 1..26}
Digit == {"0","1","2","3","4","5","6","7","8","9"}
AlNum == Lower \cup Upper \cup Digit
\* \s of a JavaScript regex, as far as the texts of this model hold it
Space == {" ", "\t", "\n"}

\* the canonical (upper-case) form the "i" flag compares characters in
Canon(c) ==
  IF c \in Lower THEN UpperSeq[CHOOSE i \in 1..26 : LowerSeq[i] = c] ELSE c

\* n copies of the character c
Times(c, n) == [i \in 1..n |-> c]

\* text.includes(value)
Includes(text, value) ==
  \E i \in 1..(Len(text) - Len(value) + 1) :
     SubSeq(text, i, i + Len(value) - 1) = value

(***************************************************************************)
(* Regular expressions.  An item of parts is one of                        *)
(*   [kind |-> "cls", set |-> S, lo |-> n, hi |-> m]  a character class    *)
(*        with a greedy quantifier {n,m}; hi = -1 is "no upper limit"      *)
(*   [kind |-> "any", lo |-> n, hi |-> m]             the dot              *)
(*   [kind |-> "alt", alts |-> <<w1, ..., wk>>]       (?:w1|...|wk)        *)
(*   [kind |-> "bol"], [kind |-> "eol"]               ^ and $              *)
(***************************************************************************)
Lit(c) == [kind |-> "cls", set |-> {c}, lo |-> 1, hi |-> 1]
Cls(S, lo, hi) == [kind |-> "cls", set |-> S, lo |-> lo, hi |-> hi]
Alt(ws) == [kind |-> "alt", alts |-> ws]
Word(w) == [i \in 1..Len(w) |-> Lit(w[i])]

\* does the character c belong to the class item p, under the flags fl
InClass(c, p, fl) ==
  IF p.kind = "any" THEN c # "\n"
  ELSE IF "i" \in fl THEN Canon(c) \in {Canon(d) : d \in p.set}
  ELSE c \in p.set

\* the length of the longest run of characters of item p from position i,
\* at most cap characters (cap = -1: no limit)
RECURSIVE Run(_, _, _, _, _)
Run(text, i, p, fl, cap) ==
  IF cap = 0 \/ i > Len(text) \/ ~InClass(text[i], p, fl) THEN 0
  ELSE 1 + Run(text, i + 1, p, fl, IF cap = -1 THEN -1 ELSE cap - 1)

\* the word w stands at position i of text
WordAt(text, i, w, fl) ==
  /\ i + Len(w) - 1 <= Len(text)
  /\ \A j \in 1..Len(w) :
       IF "i" \in fl THEN Canon(text[i + j - 1]) = Canon(w[j])
       ELSE text[i + j - 1] = w[j]

\* The backtracking matcher: the position after the match of parts[p..]
\* begun at position i of text, or 0 when there is none.  TryRun tries the
\* run lengths k, k-1, ..., lo of a quantified item (greedy first); TryAlt
\* tries the alternatives a, a+1, ... in written order.
RECURSIVE MatchFrom(_, _, _, _, _), TryRun(_, _, _, _, _, _), TryAlt(_, _, _, _, _, _)
MatchFrom(parts, p, text, i, fl) ==
  IF p > Len(parts) THEN i
  ELSE LET it == parts[p] IN
    CASE it.kind = "bol" -> IF i = 1 THEN MatchFrom(parts, p + 1, text, i, fl) ELSE 0
      [] it.kind = "eol" -> IF i = Len(text) + 1
                            THEN MatchFrom(parts, p + 1, text, i, fl) ELSE 0
      [] it.kind = "alt" -> TryAlt(parts, p, text, i, fl, 1)
      [] OTHER -> TryRun(parts, p, text, i, fl, Run(text, i, it, fl, it.hi))
TryRun(parts, p, text, i, fl, k) ==
  IF k < parts[p].lo THEN 0
  ELSE LET e == MatchFrom(parts, p + 1, text, i + k, fl) IN
       IF e # 0 THEN e ELSE TryRun(parts, p, text, i, fl, k - 1)
TryAlt(parts, p, text, i, fl, a) ==
  IF a > Len(parts[p].alts) THEN 0
  ELSE LET w == parts[p].alts[a]
           e == IF WordAt(text, i, w, fl)
                THEN MatchFrom(parts, p + 1, text, i + Len(w), fl) ELSE 0
       IN IF e # 0 THEN e ELSE TryAlt(parts, p, text, i, fl, a + 1)

\* the length of the match of re at position i of text, or -1
MatchAt(re, text, i) ==
  LET e == MatchFrom(re.parts, 1, text, i, re.flags) IN
  IF e = 0 THEN -1 ELSE e - i

(***************************************************************************)
(* String.prototype.match and String.prototype.replace with a RegExp and a *)
(* replacement STRING                                                      *)
(***************************************************************************)
\* GetSubstitution: the replacement string rep expanded for the match of
\* length k at position i of text.  "$$" is "$", "$&" the match, "$'" the
\* text after it; any other "$" stands for itself: the regexes of this model
\* have no capture group a "$1" could name, and its strings do not hold the
\* backquote of "$" backquote (the text before the match).
RECURSIVE Expand(_, _, _, _, _)
Expand(rep, j, text, i, k) ==
  IF j > Len(rep) THEN << >>
  ELSE IF rep[j] = "$" /\ j < Len(rep) /\ rep[j + 1] \in {"$", "&", "'"}
  THEN (CASE rep[j + 1] = "$" -> <<"$">>
          [] rep[j + 1] = "&" -> SubSeq(text, i, i + k - 1)
          [] OTHER            -> SubSeq(text, i + k, Len(text)))
       \o Expand(rep, j + 2, text, i, k)
  ELSE <<rep[j]>> \o Expand(rep, j + 1, text, i, k)

\* the character at position i of text, as a string of length 0 or 1
CharAt(text, i) == IF i <= Len(text) THEN <<text[i]>> ELSE << >>

\* for every position of text (the end included), the length of the match
\* of re there, or -1
MatchTable(re, text) == [i \in 1..(Len(text) + 1) |-> MatchAt(re, text, i)]

\* the first position from i on where re matches, or 0: where the search of
\* RegExpBuiltinExec, begun at lastIndex = i - 1, stops
NextMatch(M, i) ==
  LET at == {j \in i..Len(M) : M[j] >= 0} IN
  IF at = {} THEN 0 ELSE CHOOSE j \in at : \A h \in at : j <= h

\* text.replace(re, rep) for a global re, from position i on: every match
\* is replaced, the search resumes after the match, and after an empty match
\* one character further (AdvanceStringIndex)
RECURSIVE ReplaceAllFrom(_, _, _, _)
ReplaceAllFrom(M, text, rep, i) ==
  LET j == NextMatch(M, i) IN
  IF j = 0 THEN SubSeq(text, i, Len(text))
  ELSE SubSeq(text, i, j - 1) \o Expand(rep, 1, text, j, M[j])
       \o (IF M[j] = 0
           THEN CharAt(text, j) \o ReplaceAllFrom(M, text, rep, j + 1)
           ELSE ReplaceAllFrom(M, text, rep, j + M[j]))

\* text.replace(re, rep) for a re without the g flag: the first match only
ReplaceFirst(M, text, rep) ==
  LET j == NextMatch(M, 1) IN
  IF j = 0 THEN text
  ELSE SubSeq(text, 1, j - 1) \o Expand(rep, 1, text, j, M[j])
       \o SubSeq(text, j + M[j], Len(text))

\* the number of matches a global re finds from position i on
RECURSIVE CountFrom(_, _)
CountFrom(M, i) ==
  LET j == NextMatch(M, i) IN
  IF j = 0 THEN 0
  ELSE 1 + CountFrom(M, IF M[j] = 0 THEN j + 1 ELSE j + M[j])

\* re finds a match somewhere in text
Matches(re, text) == \E i \in 1..(Len(text) + 1) : MatchAt(re, text, i) >= 0

\* text.replace(re, rep)
StringReplace(text, re, rep) ==
  IF "g" \in re.flags THEN ReplaceAllFrom(MatchTable(re, text), text, rep, 1)
  ELSE ReplaceFirst(MatchTable(re, text), text, rep)

\* text.match(re): the length of the array returned, 0 for null.  Without
\* the g flag the array holds the first match alone.
StringMatch(text, re) ==
  IF "g" \in re.flags THEN CountFrom(MatchTable(re, text), 1)
  ELSE IF Matches(re, text) THEN 1 ELSE 0

(***************************************************************************)
(* patterns.ts                                                             *)
(***************************************************************************)
RegExp(parts, flags) == [compiles |-> TRUE, parts |-> parts, flags |-> flags]

\* [a-zA-Z0-9_-]
KeyChars == AlNum \cup {"_", "-"}
Quote == {"'", "\""}

BUILTIN_PATTERNS == <<
  [name |-> <<"a","n","t","h","r","o","p","i","c","_","a","p","i","_","k","e","y">>,
   pattern |-> RegExp(Word(<<"s","k","-","a","n","t","-">>)
                        \o <<Cls(KeyChars, 20, -1)>>, {})],
  [name |-> <<"o","p","e","n","a","i","_","a","p","i","_","k","e","y">>,
   pattern |-> RegExp(Word(<<"s","k","-">>) \o <<Cls(AlNum, 20, -1)>>, {})],
  [name |-> <<"g","i","t","h","u","b","_","p","a","t">>,
   pattern |-> RegExp(Word(<<"g","h","p","_">>) \o <<Cls(AlNum, 36, 36)>>, {})],
  [name |-> <<"g","i","t","h","u","b","_","p","a","t","_","f","i","n","e">>,
   pattern |-> RegExp(Word(<<"g","i","t","h","u","b","_","p","a","t","_">>)
                        \o <<Cls(AlNum \cup {"_"}, 22, -1)>>, {})],
  [name |-> <<"g","i","t","h","u","b","_","o","a","u","t","h">>,
   pattern |-> RegExp(Word(<<"g","h","o","_">>) \o <<Cls(AlNum, 36, 36)>>, {})],
  [name |-> <<"a","w","s","_","a","c","c","e","s","s","_","k","e","y">>,
   pattern |-> RegExp(Word(<<"A","K","I","A">>)
                        \o <<Cls(Upper \cup Digit, 16, 16)>>, {})],
  [name |-> <<"a","w","s","_","s","e","c","r","e","t","_","k","e","y">>,
   pattern |-> RegExp(
     <<Alt(<< <<"a","w","s","_","s","e","c","r","e","t","_",
               "a","c","c","e","s","s","_","k","e","y">>,
              <<"A","W","S","_","S","E","C","R","E","T","_",
                "A","C","C","E","S","S","_","K","E","Y">> >>),
       Cls(Quote \cup {"=", ":"} \cup Space, 1, -1),
       Cls(AlNum \cup {"/", "+", "="}, 40, 40)>>, {})],
  [name |-> <<"s","l","a","c","k","_","t","o","k","e","n">>,
   pattern |-> RegExp(Word(<<"x","o","x">>)
                        \o <<Cls({"b","p","a","o","r","s"}, 1, 1), Lit("-"),
                             Cls(AlNum \cup {"-"}, 10, -1)>>, {})],
  [name |-> <<"s","t","r","i","p","e","_","k","e","y">>,
   pattern |-> RegExp(<<Cls({"s","r"}, 1, 1), Lit("k"), Lit("_"),
                        Alt(<< <<"l","i","v","e">>, <<"t","e","s","t">> >>),
                        Lit("_"), Cls(AlNum, 20, -1)>>, {})],
  [name |-> <<"g","o","o","g","l","e","_","a","p","i","_","k","e","y">>,
   pattern |-> RegExp(Word(<<"A","I","z","a">>) \o <<Cls(KeyChars, 35, 35)>>, {})],
  [name |-> <<"j","w","t">>,
   pattern |-> RegExp(Word(<<"e","y","J">>) \o <<Cls(KeyChars, 10, -1), Lit(".")>>
                        \o Word(<<"e","y","J">>)
                        \o <<Cls(KeyChars, 10, -1), Lit("."),
                             Cls(KeyChars, 10, -1)>>, {})],
  [name |-> <<"g","e","n","e","r","i","c","_","s","e","c","r","e","t">>,
   pattern |-> RegExp(
     <<Alt(<< <<"a","p","i","_","k","e","y">>, <<"a","p","i","k","e","y">>,
              <<"s","e","c","r","e","t">>, <<"t","o","k","e","n">>,
              <<"p","a","s","s","w","o","r","d">>,
              <<"c","r","e","d","e","n","t","i","a","l">>,
              <<"a","u","t","h">> >>),
       Cls(Quote, 0, 1), Cls(Space, 0, -1), Cls({":", "="}, 1, 1),
       Cls(Space, 0, -1), Cls(Quote, 1, 1),
       Cls(KeyChars \cup {"/", "+", "="}, 16, -1), Cls(Quote, 1, 1)>>, {})]
>>

Bol == [kind |-> "bol"]
Eol == [kind |-> "eol"]

SECRET_ENV_KEY_PATTERNS == <<
  RegExp(Word(<<"_","K","E","Y">>) \o <<Eol>>, {"i"}),
  RegExp(Word(<<"_","T","O","K","E","N">>) \o <<Eol>>, {"i"}),
  RegExp(Word(<<"_","S","E","C","R","E","T">>) \o <<Eol>>, {"i"}),
  RegExp(Word(<<"_","P","A","S","S","W","O","R","D">>) \o <<Eol>>, {"i"}),
  RegExp(Word(<<"_","C","R","E","D","E","N","T","I","A","L">>) \o <<Eol>>, {"i"}),
  RegExp(Word(<<"_","A","P","I","_","K","E","Y">>) \o <<Eol>>, {"i"}),
  RegExp(<<Bol>> \o Word(<<"A","P","I","_","K","E","Y">>) \o <<Eol>>, {"i"}),
  RegExp(<<Bol>> \o Word(<<"S","E","C","R","E","T">>) \o <<Eol>>, {"i"}),
  RegExp(<<Bol>> \o Word(<<"T","O","K","E","N">>) \o <<Eol>>, {"i"}),
  RegExp(<<Bol>> \o Word(<<"P","A","S","S","W","O","R","D">>) \o <<Eol>>, {"i"}),
  RegExp(<<Bol>> \o Word(<<"A","U","T","H">>), {"i"}),
  RegExp(Word(<<"_","A","U","T","H">>) \o <<Eol>>, {"i"})
>>

(***************************************************************************)
(* RegExp.prototype.test: re.test(str) on a RegExp object whose lastIndex  *)
(* is li.  Without the g flag the search starts at 0 and lastIndex is left *)
(* alone; with it the search starts at lastIndex, a match moves lastIndex  *)
(* to its end and a failure resets it to 0.                                *)
(***************************************************************************)
RegExpTest(re, li, str) ==
  IF "g" \notin re.flags THEN [found |-> Matches(re, str), lastIndex |-> li]
  ELSE LET at == {i \in (li + 1)..(Len(str) + 1) : MatchAt(re, str, i) >= 0} IN
       IF at = {} THEN [found |-> FALSE, lastIndex |-> 0]
       ELSE LET i == CHOOSE x \in at : \A y \in at : x <= y IN
            [found |-> TRUE, lastIndex |-> i - 1 + MatchAt(re, str, i)]

(***************************************************************************)
(* The Redactor class                                                      *)
(***************************************************************************)
DEFAULT_REPLACEMENT == <<"[","R","E","D","A","C","T","E","D","]">>
DEFAULT_MIN_ENV_VALUE_LENGTH == 8

\* `[REDACTED:${name}]`
PatternLabel(name) ==
  <<"[","R","E","D","A","C","T","E","D",":">> \o name \o <<"]">>
\* `env:${envKey}`
EnvLabel(envKey) == <<"e","n","v",":">> \o envKey
\* `[REDACTED:env:${envKey}]`
EnvRedacted(envKey) ==
  <<"[","R","E","D","A","C","T","E","D",":">> \o EnvLabel(envKey) \o <<"]">>

\* matched.includes(label)
Has(matched, label) == \E i \in 1..Len(matched) : matched[i] = label

\* Map.prototype.set on a Map kept as the sequence of its entries in
\* insertion order: a key already present keeps its place
MapSet(m, value, key) ==
  IF \E i \in 1..Len(m) : m[i].value = value
  THEN [i \in 1..Len(m) |-> IF m[i].value = value
                             THEN [value |-> value, key |-> key] ELSE m[i]]
  ELSE Append(m, [value |-> value, key |-> key])

\* keyPatterns.some((p) => p.test(key)): the patterns are tested in order up
\* to the first that matches.  keyPatterns[k].obj names the RegExp object
\* (0: one of SECRET_ENV_KEY_PATTERNS, whose lastIndex no test writes);
\* li is the lastIndex of the caller's RegExp objects.
RECURSIVE SomeTest(_, _, _, _)
SomeTest(keyPatterns, k, key, li) ==
  IF k > Len(keyPatterns) THEN [isSecret |-> FALSE, lastIndex |-> li]
  ELSE LET p == keyPatterns[k]
           t == RegExpTest(p.re, IF p.obj = 0 THEN 0 ELSE li[p.obj], key)
           li2 == IF p.obj = 0 THEN li ELSE [li EXCEPT ![p.obj] = t.lastIndex]
       IN IF t.found THEN [isSecret |-> TRUE, lastIndex |-> li2]
          ELSE SomeTest(keyPatterns, k + 1, key, li2)

\* the loop of loadEnvSecrets over Object.entries(process.env), from entry n
RECURSIVE LoadLoop(_, _, _, _, _)
LoadLoop(entries, n, keyPatterns, minLen, acc) ==
  IF n > Len(entries) THEN acc
  ELSE LET key == entries[n].key
           value == entries[n].value
       IN IF value = << >> \/ Len(value) < minLen
          THEN LoadLoop(entries, n + 1, keyPatterns, minLen, acc)
          ELSE LET t == SomeTest(keyPatterns, 1, key, acc.lastIndex) IN
               IF t.isSecret
               THEN LoadLoop(entries, n + 1, keyPatterns, minLen,
                             [envValues |-> MapSet(acc.envValues, value, key),
                              lastIndex |-> t.lastIndex])
               ELSE LoadLoop(entries, n + 1, keyPatterns, minLen,
                             [envValues |-> acc.envValues,
                              lastIndex |-> t.lastIndex])

\* loadEnvSecrets(extraPatterns): extraPatterns is a sequence of indexes of
\* the caller's RegExp objects KeyObjects
loadEnvSecrets(extraPatterns, pool, entries, minLen, li) ==
  LET keyPatterns ==
        [k \in 1..Len(SECRET_ENV_KEY_PATTERNS) |->
            [re |-> SECRET_ENV_KEY_PATTERNS[k], obj |-> 0]]
        \o [k \in 1..Len(extraPatterns) |->
            [re |-> pool[extraPatterns[k]], obj |-> extraPatterns[k]]]
  IN LoadLoop(entries, 1, keyPatterns, minLen,
              [envValues |-> << >>, lastIndex |-> li])

\* Constructor that scans the environment whatever opts.scanEnv is
ConstructorAlwaysScan(opts, pool, entries, li) ==
  LET replacement == IF opts.replacement # << >> THEN opts.replacement
                     ELSE DEFAULT_REPLACEMENT
      minLen == IF opts.minEnvValueLength # 0 THEN opts.minEnvValueLength
                ELSE DEFAULT_MIN_ENV_VALUE_LENGTH
      patterns == (IF opts.builtins # FALSE THEN BUILTIN_PATTERNS ELSE << >>)
                  \o opts.patterns
      loaded == loadEnvSecrets(opts.envKeyPatterns, pool, entries, minLen, li)
  IN [this |-> [patterns |-> patterns,
                envValues |-> loaded.envValues,
                replacement |-> replacement,
                labelRedactions |-> opts.labelRedactions,
                minEnvValueLength |-> minLen],
      lastIndex |-> loaded.lastIndex]

\* new Redactor(opts).  An option left out is given here as the falsy value
\* the constructor treats alike: replacement "" (<< >>), minEnvValueLength 0,
\* labelRedactions and scanEnv FALSE, patterns and envKeyPatterns empty;
\* builtins left out is TRUE (opts.builtins !== false).
\* The result is the new object and the lastIndex of the caller's RegExps.
Constructor(opts, pool, entries, li) ==
  LET replacement == IF opts.replacement # << >> THEN opts.replacement
                     ELSE DEFAULT_REPLACEMENT
      minLen == IF opts.minEnvValueLength # 0 THEN opts.minEnvValueLength
                ELSE DEFAULT_MIN_ENV_VALUE_LENGTH
      patterns == (IF opts.builtins # FALSE THEN BUILTIN_PATTERNS ELSE << >>)
                  \o opts.patterns
      loaded == IF opts.scanEnv
                THEN loadEnvSecrets(opts.envKeyPatterns, pool, entries, minLen, li)
                ELSE [envValues |-> << >>, lastIndex |-> li]
  IN [this |-> [patterns |-> patterns,
                envValues |-> loaded.envValues,
                replacement |-> replacement,
                labelRedactions |-> opts.labelRedactions,
                minEnvValueLength |-> minLen],
      lastIndex |-> loaded.lastIndex]

\* /[.*+?^${}()|[\]\\]/g
SPECIAL_CHARS ==
  RegExp(<<Cls({".", "*", "+", "?", "^", "$", "{", "}", "(", ")", "|",
               "[", "]", "\\"}, 1, 1)>>, {"g"})

\* value.replace(/[.*+?^${}()|[\]\\]/g, '\\$&')
escaped(value) == StringReplace(value, SPECIAL_CHARS, <<"\\", "$", "&">>)

\* new RegExp(source, flags) for the sources the environment layer builds:
\* a backslash makes the next character literal, an unescaped dot is any
\* character, every other character is itself
RECURSIVE Compile(_, _)
Compile(source, j) ==
  IF j > Len(source) THEN << >>
  ELSE IF source[j] = "\\" /\ j < Len(source)
  THEN <<Lit(source[j + 1])>> \o Compile(source, j + 2)
  ELSE IF source[j] = "."
  THEN <<[kind |-> "any", lo |-> 1, hi |-> 1]>> \o Compile(source, j + 1)
  ELSE <<Lit(source[j])>> \o Compile(source, j + 1)
NewRegExp(source, flags) == RegExp(Compile(source, 1), flags)

\* the result of redact: threw tells that the call ended in an exception
\* instead of returning { text, count, matched }
Result(text, count, matched) ==
  [threw |-> FALSE, text |-> text, count |-> count, matched |-> matched]
Thrown == [threw |-> TRUE, text |-> << >>, count |-> 0, matched |-> << >>]

\* globalPattern that hands the pattern on with its own flags
globalPatternOwnFlags(pattern) == pattern

\* globalPattern built with the flags 'gi' whatever the pattern's own flags
globalPatternIgnoreCase(pattern) ==
  [pattern EXCEPT !.flags = {"g", "i"}]

\* new RegExp(pattern.source, pattern.flags.includes('g') ? pattern.flags
\*                                                     : pattern.flags + 'g')
globalPattern(pattern) ==
  [pattern EXCEPT !.flags = IF "g" \in pattern.flags THEN pattern.flags
                            ELSE pattern.flags \cup {"g"}]

\* PatternLoop with matched.push(name) done for every pattern, matching or
\* not (the push moved out of `if (matches)`)
RECURSIVE PatternLoopPushAlways(_, _, _)
PatternLoopPushAlways(this, n, acc) ==
  IF n > Len(this.patterns) THEN acc
  ELSE LET name == this.patterns[n].name
           pattern == this.patterns[n].pattern
       IN IF ~pattern.compiles THEN Thrown
          ELSE LET gp == globalPattern(pattern)
                   matches == StringMatch(acc.text, gp)
                   rep == IF this.labelRedactions THEN PatternLabel(name)
                          ELSE this.replacement
                   pushed == IF Has(acc.matched, name) THEN acc.matched
                             ELSE Append(acc.matched, name)
               IN IF matches > 0
                  THEN PatternLoopPushAlways(this, n + 1,
                         Result(StringReplace(acc.text, gp, rep),
                                acc.count + matches, pushed))
                  ELSE PatternLoopPushAlways(this, n + 1,
                         Result(acc.text, acc.count, pushed))

\* the loop of redact over this.patterns, from pattern n.  A pattern value
\* with compiles = FALSE is one line 449 throws on: a value that is no RegExp
\* (its .flags is undefined) or whose source does not parse.
RECURSIVE PatternLoop(_, _, _)
PatternLoop(this, n, acc) ==
  IF n > Len(this.patterns) THEN acc
  ELSE LET name == this.patterns[n].name
           pattern == this.patterns[n].pattern
       IN IF ~pattern.compiles THEN Thrown
          ELSE LET gp == globalPattern(pattern)
                   matches == StringMatch(acc.text, gp)
                   rep == IF this.labelRedactions THEN PatternLabel(name)
                          ELSE this.replacement
               IN IF matches > 0
                  THEN PatternLoop(this, n + 1,
                         Result(StringReplace(acc.text, gp, rep),
                                acc.count + matches,
                                IF Has(acc.matched, name) THEN acc.matched
                                ELSE Append(acc.matched, name)))
                  ELSE PatternLoop(this, n + 1, acc)

\* sortedEnvValues without the sort: the entries in insertion order
sortedEnvValuesUnsorted(envValues, n) == SubSeq(envValues, 1, n)

\* [...entries].sort((a, b) => b[0].length - a[0].length): a stable sort,
\* longest value first.  InsertByLength puts e behind every entry at least as
\* long; sortedEnvValues inserts the first n entries in order.
InsertByLength(sorted, e) ==
  LET before == {i \in 1..Len(sorted) : Len(sorted[i].value) >= Len(e.value)}
      b == Cardinality(before)
  IN SubSeq(sorted, 1, b) \o <<e>> \o SubSeq(sorted, b + 1, Len(sorted))
RECURSIVE sortedEnvValues(_, _)
sortedEnvValues(envValues, n) ==
  IF n = 0 THEN << >>
  ELSE InsertByLength(sortedEnvValues(envValues, n - 1), envValues[n])

\* EnvLoop without `count += matches.length`
RECURSIVE EnvLoopNoCount(_, _, _, _)
EnvLoopNoCount(this, sorted, n, acc) ==
  IF n > Len(sorted) THEN acc
  ELSE LET value == sorted[n].value
           envKey == sorted[n].key
       IN IF Includes(acc.text, value)
          THEN LET rep == IF this.labelRedactions THEN EnvRedacted(envKey)
                          ELSE this.replacement
                   re == NewRegExp(escaped(value), {"g"})
                   matches == StringMatch(acc.text, re)
                   label == EnvLabel(envKey)
               IN IF matches > 0
                  THEN EnvLoopNoCount(this, sorted, n + 1,
                         Result(StringReplace(acc.text, re, rep),
                                acc.count,
                                IF Has(acc.matched, label) THEN acc.matched
                                ELSE Append(acc.matched, label)))
                  ELSE EnvLoopNoCount(this, sorted, n + 1, acc)
          ELSE EnvLoopNoCount(this, sorted, n + 1, acc)

\* the loop of redact over sortedEnvValues, from entry n
RECURSIVE EnvLoop(_, _, _, _)
EnvLoop(this, sorted, n, acc) ==
  IF n > Len(sorted) THEN acc
  ELSE LET value == sorted[n].value
           envKey == sorted[n].key
       IN IF Includes(acc.text, value)
          THEN LET rep == IF this.labelRedactions THEN EnvRedacted(envKey)
                          ELSE this.replacement
                   re == NewRegExp(escaped(value), {"g"})
                   matches == StringMatch(acc.text, re)
                   label == EnvLabel(envKey)
               IN IF matches > 0
                  THEN EnvLoop(this, sorted, n + 1,
                         Result(StringReplace(acc.text, re, rep),
                                acc.count + matches,
                                IF Has(acc.matched, label) THEN acc.matched
                                ELSE Append(acc.matched, label)))
                  ELSE EnvLoop(this, sorted, n + 1, acc)
          ELSE EnvLoop(this, sorted, n + 1, acc)

\* redact(input)
redact(this, input) ==
  LET afterPatterns == PatternLoop(this, 1, Result(input, 0, << >>)) IN
  IF afterPatterns.threw THEN Thrown
  ELSE EnvLoop(this, sortedEnvValues(this.envValues, Len(this.envValues)),
               1, afterPatterns)

\* hasSecrets that tells by the text: redact(input).text !== input
hasSecretsByText(this, input) ==
  LET r == redact(this, input) IN
  [threw |-> r.threw, value |-> r.text # input]

\* clean(input) and hasSecrets(input); a throw of redact passes through
clean(this, input) ==
  LET r == redact(this, input) IN
  [threw |-> r.threw, value |-> r.text]
hasSecrets(this, input) ==
  LET r == redact(this, input) IN
  [threw |-> r.threw, value |-> r.count > 0]

(***************************************************************************)
(* The state: the process, one Redactor instance and its caller            *)
(***************************************************************************)
VARIABLES
  env,        \* process.env: the sequence of its entries [key, value]
  lastIndex,  \* lastIndex of each RegExp object of the caller (KeyObjects)
  made,       \* new Redactor(opts) has returned
  given,      \* what the constructor was given: opts, and process.env then
  this,       \* the fields of the instance
  call,       \* the call the caller made last and what it returned
  prev,       \* the redact call whose output text the last call was given
  piped,      \* createStream() has returned the Transform
  written,    \* the chunks written to the Transform, in order
  done,       \* how many of them transform() has been called for
  emitted,    \* the chunks the Transform has pushed to its readable side
  errored     \* transform() threw: the stream is destroyed
vars == <<env, lastIndex, made, given, this, call, prev,
          piped, written, done, emitted, errored>>
streamVars == <<piped, written, done, emitted, errored>>

NoCall == [op |-> "none"]
NoRedactor == [patterns |-> << >>, envValues |-> << >>, replacement |-> << >>,
               labelRedactions |-> FALSE, minEnvValueLength |-> 0]

(***************************************************************************)
(* Bounds and the values the operations are tried on                       *)
(***************************************************************************)
MaxLen == 3
MaxChunks == 3
\* the longest text a call is given
MaxInput == 48

\* every string of at most n characters of the set A
Strings(A, n) == UNION {[1..k -> A] : k \in 0..n}

\* RegExp objects the caller passes as envKeyPatterns: /_CRED$/ and /^MY_/g
KeyObjects == <<
  RegExp(Word(<<"_","C","R","E","D">>) \o <<Eol>>, {}),
  RegExp(<<Bol>> \o Word(<<"M","Y","_">>), {"g"}) >>

(***************************************************************************)
(* Operations                                                              *)
(***************************************************************************)
\* process.env[key] = value: a new key goes last
SetEnv(key, value) ==
  /\ env' = IF \E i \in 1..Len(env) : env[i].key = key
            THEN [i \in 1..Len(env) |->
                    IF env[i].key = key THEN [key |-> key, value |-> value]
                    ELSE env[i]]
            ELSE Append(env, [key |-> key, value |-> value])
  /\ env' # env
  /\ UNCHANGED <<lastIndex, made, given, this, call, prev, streamVars>>

\* delete process.env[key]
DeleteEnv(key) ==
  /\ \E i \in 1..Len(env) : env[i].key = key
  /\ env' = SelectSeq(env, LAMBDA e : e.key # key)
  /\ UNCHANGED <<lastIndex, made, given, this, call, prev, streamVars>>

\* new Redactor(opts)
New(opts) ==
  /\ ~made
  /\ LET c == Constructor(opts, KeyObjects, env, lastIndex) IN
       /\ this' = c.this
       /\ lastIndex' = c.lastIndex
  /\ made' = TRUE
  /\ given' = [opts |-> opts, env |-> env, lastIndex |-> lastIndex]
  /\ UNCHANGED <<env, call, prev, streamVars>>

\* Redact that scans process.env again before it redacts
RedactRescan(input) ==
  /\ made /\ Len(input) <= MaxInput
  /\ \/ call.op = "none"
     \/ /\ call.op = "redact" /\ prev.op = "none"
        /\ ~call.ret.threw /\ input = call.ret.text
  /\ LET loaded == IF given.opts.scanEnv
                   THEN loadEnvSecrets(given.opts.envKeyPatterns, KeyObjects,
                                       env, this.minEnvValueLength, lastIndex)
                   ELSE [envValues |-> << >>, lastIndex |-> lastIndex]
     IN /\ this' = [this EXCEPT !.envValues = loaded.envValues]
        /\ lastIndex' = loaded.lastIndex
        /\ call' = [op |-> "redact", input |-> input,
                    ret |-> redact(this', input)]
  /\ prev' = call
  /\ UNCHANGED <<env, made, given, streamVars>>

\* redact(input), by a caller that holds no result, or that holds the result
\* of a redact call and passes its text
Redact(input) ==
  /\ made /\ Len(input) <= MaxInput
  /\ \/ call.op = "none"
     \/ /\ call.op = "redact" /\ prev.op = "none"
        /\ ~call.ret.threw /\ input = call.ret.text
  /\ call' = [op |-> "redact", input |-> input, ret |-> redact(this, input)]
  /\ prev' = call
  /\ UNCHANGED <<env, lastIndex, made, given, this, streamVars>>

\* redact(input) with sortedEnvValues sorted in place: this.envValues is
\* left in the sorted order
RedactAgainSortInPlace ==
  /\ made /\ call.op = "redact" /\ prev.op = "none" /\ ~call.ret.threw
  /\ this' = [this EXCEPT
                !.envValues = sortedEnvValues(this.envValues,
                                              Len(this.envValues))]
  /\ call' = [op |-> "redact", input |-> call.input,
              ret |-> redact(this, call.input)]
  /\ prev' = call
  /\ UNCHANGED <<env, lastIndex, made, given, streamVars>>

\* redact(input) once more with the input of the redact call before
RedactAgain ==
  /\ made /\ call.op = "redact" /\ prev.op = "none" /\ ~call.ret.threw
  /\ call' = [op |-> "redact", input |-> call.input,
              ret |-> redact(this, call.input)]
  /\ prev' = call
  /\ UNCHANGED <<env, lastIndex, made, given, this, streamVars>>

\* clean(input)
Clean(input) ==
  /\ made /\ call.op = "none" /\ Len(input) <= MaxInput
  /\ call' = [op |-> "clean", input |-> input, ret |-> clean(this, input)]
  /\ UNCHANGED <<env, lastIndex, made, given, this, prev, streamVars>>

\* hasSecrets(input)
HasSecrets(input) ==
  /\ made /\ call.op = "none" /\ Len(input) <= MaxInput
  /\ call' = [op |-> "hasSecrets", input |-> input,
              ret |-> hasSecrets(this, input)]
  /\ UNCHANGED <<env, lastIndex, made, given, this, prev, streamVars>>

\* the caller lets go of the result it holds
Discard ==
  /\ call.op # "none"
  /\ call' = NoCall /\ prev' = NoCall
  /\ UNCHANGED <<env, lastIndex, made, given, this, streamVars>>

\* createStream()
CreateStream ==
  /\ made /\ ~piped
  /\ piped' = TRUE
  /\ UNCHANGED <<env, lastIndex, made, given, this, call, prev,
                 written, done, emitted, errored>>

\* transform.write(chunk): the Writable side queues the chunk
Write(chunk) ==
  /\ piped /\ ~errored /\ Len(written) < MaxChunks
  /\ written' = Append(written, chunk)
  /\ UNCHANGED <<env, lastIndex, made, given, this, call, prev,
                 piped, done, emitted, errored>>

\* Transform that puts the text in front of what the readable side holds
TransformUnshift ==
  /\ piped /\ ~errored /\ done < Len(written)
  /\ LET input == written[done + 1]
         r == redact(this, input)
     IN IF r.threw
        THEN errored' = TRUE /\ UNCHANGED <<done, emitted>>
        ELSE /\ done' = done + 1
             /\ emitted' = IF r.text = << >> THEN emitted
                           ELSE <<r.text>> \o emitted
             /\ UNCHANGED errored
  /\ UNCHANGED <<env, lastIndex, made, given, this, call, prev, piped, written>>

\* Transform that redacts the chunk together with the chunk before it and
\* emits what stands behind the earlier chunk's length
TransformCarry ==
  /\ piped /\ ~errored /\ done < Len(written)
  /\ LET before == IF done = 0 THEN << >> ELSE written[done]
         r == redact(this, before \o written[done + 1])
         out == SubSeq(r.text, Len(before) + 1, Len(r.text))
     IN IF r.threw
        THEN errored' = TRUE /\ UNCHANGED <<done, emitted>>
        ELSE /\ done' = done + 1
             /\ emitted' = IF out = << >> THEN emitted
                           ELSE Append(emitted, out)
             /\ UNCHANGED errored
  /\ UNCHANGED <<env, lastIndex, made, given, this, call, prev, piped, written>>

\* transform(chunk, _encoding, callback) for the oldest queued chunk.
\* callback(null, text) pushes text to the readable side; Readable.push adds
\* nothing for a zero-length chunk (the stream is not in object mode).
Transform ==
  /\ piped /\ ~errored /\ done < Len(written)
  /\ LET input == written[done + 1]
         r == redact(this, input)
     IN IF r.threw
        THEN errored' = TRUE /\ UNCHANGED <<done, emitted>>
        ELSE /\ done' = done + 1
             /\ emitted' = IF r.text = << >> THEN emitted
                           ELSE Append(emitted, r.text)
             /\ UNCHANGED errored
  /\ UNCHANGED <<env, lastIndex, made, given, this, call, prev, piped, written>>

(***************************************************************************)
(* The values the specifications draw                                      *)
(***************************************************************************)
\* custom patterns: /ab/, /ab/g, /a+/, /b*/, /ab/ named "$&", /x/ named "p"
pAB     == [name |-> <<"p">>, pattern |-> RegExp(Word(<<"a","b">>), {})]
pABg    == [name |-> <<"p">>, pattern |-> RegExp(Word(<<"a","b">>), {"g"})]
pAplus  == [name |-> <<"q">>, pattern |-> RegExp(<<Cls({"a"}, 1, -1)>>, {})]
pBstar  == [name |-> <<"e">>, pattern |-> RegExp(<<Cls({"b"}, 0, -1)>>, {})]
pDollar == [name |-> <<"$","&">>, pattern |-> RegExp(Word(<<"a","b">>), {})]
pX      == [name |-> <<"p">>, pattern |-> RegExp(Word(<<"x">>), {})]
\* a value that is no RegExp, passed as a pattern
pInvalid == [name |-> <<"bad">>,
             pattern |-> [compiles |-> FALSE, parts |-> << >>, flags |-> {}]]

PatternLists == {<< >>, <<pAB>>, <<pABg>>, <<pAplus, pAB>>, <<pAB, pAplus>>,
                 <<pBstar>>, <<pDollar>>, <<pAB, pX>>}

\* replacement strings: none given, "#", "b", "$&", "$$"
Replacements == {<< >>, <<"#">>, <<"b">>, <<"$","&">>, <<"$","$">>}

\* the environment the process starts with
EnvInit == <<
  [key |-> <<"A","_","K","E","Y">>,         value |-> <<"x","a","b">>],
  [key |-> <<"b","_","t","o","k","e","n">>, value |-> <<"a","b">>],
  [key |-> <<"N","A","M","E">>,             value |-> <<"x","x">>],
  [key |-> <<"$","&","_","K","E","Y">>,     value |-> <<"b","a",".">>],
  [key |-> <<"D","_","S","E","C","R","E","T">>, value |-> Times("b", 8)],
  [key |-> <<"M","Y","_","C","R","E","D">>, value |-> <<"b","x">>] >>

Opts(b, ps, se, ek, m, r, l) ==
  [builtins |-> b, patterns |-> ps, scanEnv |-> se, envKeyPatterns |-> ek,
   minEnvValueLength |-> m, replacement |-> r, labelRedactions |-> l]

\* options for the pattern layer alone, for the environment layer, and with
\* the built-in patterns
PatternOpts ==
  {Opts(FALSE, ps, FALSE, << >>, 0, r, l) :
     ps \in PatternLists, r \in Replacements, l \in BOOLEAN}
EnvOpts ==
  {Opts(FALSE, ps, TRUE, ek, m, r, l) :
     ps \in {<< >>, <<pAB>>}, ek \in {<< >>, <<1, 2>>}, m \in {0, 2, 3},
     r \in {<< >>, <<"#">>, <<"$","&">>}, l \in BOOLEAN}
BuiltinOpts ==
  {Opts(TRUE, ps, FALSE, << >>, 0, << >>, l) :
     ps \in {<< >>, <<pAB>>}, l \in BOOLEAN}
RedactOpts == PatternOpts \cup EnvOpts \cup BuiltinOpts

\* input texts: every short string of a, b, x, and some long ones
akiaKey == <<"A","K","I","A">> \o Times("7", 16)
antKey == <<"s","k","-","a","n","t","-">> \o Times("a", 20)
LongTexts == {
  akiaKey \o <<" ","a","b"," ">> \o akiaKey,
  antKey \o <<"\n">>,
  <<" ","\n","\t"," ">>,
  <<"x">> \o Times("b", 8) \o <<"x","a","b">>,
  <<"b","a",".","b","a","x">>,
  <<"a","b","x","a","b">>,
  <<"x","a","b","x","a","b">>,
  <<"b","x","a","b","a",".">> }
Texts == Strings({"a", "b", "x"}, MaxLen)
Inputs == Texts \cup LongTexts

(***************************************************************************)
(* Specifications                                                          *)
(***************************************************************************)
Init ==
  /\ env = EnvInit
  /\ lastIndex = [k \in 1..Len(KeyObjects) |-> 0]
  /\ made = FALSE
  /\ given = NoCall
  /\ this = NoRedactor
  /\ call = NoCall
  /\ prev = NoCall
  /\ piped = FALSE
  /\ written = << >>
  /\ done = 0
  /\ emitted = << >>
  /\ errored = FALSE

\* one instance and its caller: construction, then calls
NextRedact ==
  \/ \E opts \in RedactOpts : New(opts)
  \/ \E input \in Inputs \cup (IF call.op = "redact" THEN {call.ret.text} ELSE {}) :
       Redact(input)
  \/ \E input \in Inputs : Clean(input)
  \/ \E input \in Inputs : HasSecrets(input)
  \/ Discard
SpecRedact == Init /\ [][NextRedact]_vars

\* the Transform of one instance: chunks written and transformed
StreamOpts ==
  {Opts(FALSE, ps, se, << >>, 2, r, FALSE) :
     ps \in {<< >>, <<pAB>>}, se \in BOOLEAN, r \in {<< >>, <<"$","'">>}}
Chunks == {<< >>, <<"a">>, <<"b">>, <<"a","b">>, <<"x","a">>, <<"a","b","x">>}
NextStream ==
  \/ \E opts \in StreamOpts : New(opts)
  \/ CreateStream
  \/ \E chunk \in Chunks : Write(chunk)
  \/ Transform
SpecStream == Init /\ [][NextStream]_vars

\* a caller that is not held to the type SecretPattern: opts.patterns may
\* hold a value that is no RegExp
UntypedOpts ==
  {Opts(FALSE, ps, FALSE, << >>, 0, << >>, l) :
     ps \in {<<pInvalid>>, <<pAB, pInvalid>>, <<pAB>>}, l \in BOOLEAN}
NextUntyped ==
  \/ \E opts \in UntypedOpts : New(opts)
  \/ \E input \in Texts : Redact(input)
  \/ \E input \in Texts : Clean(input)
  \/ \E input \in Texts : HasSecrets(input)
  \/ Discard
  \/ CreateStream
  \/ \E chunk \in {<< >>, <<"a","b">>} : Write(chunk)
  \/ Transform
SpecUntyped == Init /\ [][NextUntyped]_vars

\* an instance in a process whose environment changes, before and after the
\* construction: MY_B is added, MY_CRED changed, b_token and MY_B deleted
EnvScanOpts ==
  {Opts(FALSE, << >>, se, ek, m, << >>, FALSE) :
     se \in BOOLEAN, ek \in {<< >>, <<2>>}, m \in {2, 3}}
EnvWrites == {
  [key |-> <<"M","Y","_","B">>,             value |-> <<"a","x">>],
  [key |-> <<"M","Y","_","C","R","E","D">>, value |-> <<"x","a">>] }
EnvDeletes == {<<"M","Y","_","B">>, <<"b","_","t","o","k","e","n">>}
EnvTexts == {<<"x","a","b">>, <<"a","b","x","a">>}
NextEnv ==
  \/ \E w \in EnvWrites : SetEnv(w.key, w.value)
  \/ \E key \in EnvDeletes : DeleteEnv(key)
  \/ \E opts \in EnvScanOpts : New(opts)
  \/ \E input \in EnvTexts : Redact(input)
  \/ RedactAgain
  \/ Clean(<<"x","a","b">>)
  \/ HasSecrets(<<"x","a","b">>)
  \/ Discard
  \/ CreateStream
  \/ Write(<<"x","a","b">>)
  \/ Transform
SpecEnv == Init /\ [][NextEnv]_vars

(***************************************************************************)
(* Properties                                                              *)
(***************************************************************************)
\* no configured pattern matches a substring of t and t holds no
\* environment literal
NothingMatches(t) ==
  /\ \A n \in 1..Len(this.patterns) : ~Matches(this.patterns[n].pattern, t)
  /\ \A n \in 1..Len(this.envValues) : ~Includes(t, this.envValues[n].value)

\* C1: redact of a text in which no configured pattern matches and which
\* holds no environment literal returns the text unchanged, count 0 and an
\* empty matched, the empty and the whitespace-only text included.
C1_Identity ==
  (call.op = "redact" /\ NothingMatches(call.input))
    => call.ret = Result(call.input, 0, << >>)
\* such a call, of an engine with patterns and environment literals
C1_Witness ==
  /\ call.op = "redact" /\ NothingMatches(call.input)
  /\ Len(this.patterns) > 0 /\ Len(this.envValues) > 0
  /\ Len(call.input) > 0

\* text with every match of the table M from position i on replaced by the
\* characters of rep, taken as they are
RECURSIVE SpliceFrom(_, _, _, _)
SpliceFrom(M, text, rep, i) ==
  LET j == NextMatch(M, i) IN
  IF j = 0 THEN SubSeq(text, i, Len(text))
  ELSE SubSeq(text, i, j - 1) \o rep
       \o (IF M[j] = 0
           THEN CharAt(text, j) \o SpliceFrom(M, text, rep, j + 1)
           ELSE SpliceFrom(M, text, rep, j + M[j]))

\* the pattern layer as C2 states it: pattern after pattern, every match
\* replaced by exactly replacementToken or exactly "[REDACTED:<name>]"
RECURSIVE ExactPatternLayer(_, _)
ExactPatternLayer(n, text) ==
  IF n > Len(this.patterns) THEN text
  ELSE LET next == SpliceFrom(MatchTable(this.patterns[n].pattern, text),
                              text,
                              IF this.labelRedactions
                              THEN PatternLabel(this.patterns[n].name)
                              ELSE this.replacement, 1)
       IN IF next = << >> THEN ExactPatternLayer(n + 1, << >>)
          ELSE ExactPatternLayer(n + 1, next)

\* C2: in the pattern layer every matched occurrence is replaced by exactly
\* the characters of replacementToken, or with labelRedactions by exactly
\* "[REDACTED:<pattern name>]", and the text outside the matches is kept,
\* for every replacementToken and every pattern name.
C2_ExactReplacement ==
  (call.op = "redact" /\ Len(this.envValues) = 0)
    => call.ret.text = ExactPatternLayer(1, call.input)

\* what the engine can put in place of a match: its token, or with
\* labelRedactions the label of each pattern and of each environment entry
Producible ==
  IF this.labelRedactions
  THEN {PatternLabel(this.patterns[n].name) : n \in 1..Len(this.patterns)}
       \cup {EnvRedacted(this.envValues[n].key) : n \in 1..Len(this.envValues)}
  ELSE {this.replacement}

\* C3 as stated: when the token and the labels match no configured pattern
\* and hold no environment literal, redact of the text redact returned
\* counts 0.
\* Stated for configurations without "$", where every replacement is the token
\* or the label itself.
C3_AsStated ==
  (call.op = "redact" /\ prev.op = "redact"
   /\ \A tok \in Producible : NothingMatches(tok) /\ ~Includes(tok, <<"$">>))
    => call.ret.count = 0

\* C3: when no configured pattern matches the text redact returned and that
\* text holds no environment literal, redact of it counts 0 and returns it
\* unchanged.  (A token that matches nothing by itself is not enough: with
\* pattern /ab/ and token "b", "aab" becomes "ab".)
C3_Reapplied ==
  (call.op = "redact" /\ prev.op = "redact" /\ NothingMatches(prev.ret.text))
    => (call.ret.count = 0 /\ call.ret.text = prev.ret.text)
\* a second redact over a text the first one changed
C3_Witness ==
  /\ call.op = "redact" /\ prev.op = "redact"
  /\ NothingMatches(prev.ret.text)
  /\ prev.ret.count > 0 /\ call.ret.count = 0
  /\ Len(this.patterns) > 0

\* environment literals A and B of the engine with A inside B and B longer
Nested(A, B) ==
  /\ Includes(B.value, A.value) /\ Len(B.value) > Len(A.value)
NestedPairs ==
  {<<this.envValues[a], this.envValues[b]>> :
     a \in 1..Len(this.envValues), b \in 1..Len(this.envValues)}

\* C4: with environment literals A and B, A inside B and B longer, redact of
\* a text holding B replaces B as a whole by one replacement: here for the
\* text B itself and an engine without patterns, whose result is the one
\* token, or the one label of B, counted once.
C4_LongestFirst ==
  \A ab \in NestedPairs :
    (call.op = "redact" /\ Len(this.patterns) = 0
     /\ Nested(ab[1], ab[2]) /\ call.input = ab[2].value)
      => /\ call.ret.count = 1
         /\ call.ret.text = IF this.labelRedactions
                            THEN EnvRedacted(ab[2].key)
                            ELSE this.replacement

\* the pattern layer as C5 states it, from pattern n: every non-overlapping
\* occurrence of the pattern in the current text is replaced and counted,
\* whatever the flags of the pattern
RECURSIVE EveryOccurrence(_, _)
EveryOccurrence(n, acc) ==
  IF n > Len(this.patterns) THEN acc
  ELSE LET M == MatchTable(this.patterns[n].pattern, acc.text)
           rep == IF this.labelRedactions
                  THEN PatternLabel(this.patterns[n].name)
                  ELSE this.replacement
           next == [text |-> ReplaceAllFrom(M, acc.text, rep, 1),
                    count |-> acc.count + CountFrom(M, 1)]
       IN IF next.count = 0 THEN EveryOccurrence(n + 1, acc)
          ELSE EveryOccurrence(n + 1, next)

\* C5: for every configured pattern, with the g flag or without, redact
\* replaces every non-overlapping occurrence of the pattern in the current
\* text and adds the number of occurrences to count.
C5_EveryOccurrence ==
  (call.op = "redact" /\ Len(this.envValues) = 0)
    => LET all == EveryOccurrence(1, [text |-> call.input, count |-> 0])
       IN call.ret.count = all.count /\ call.ret.text = all.text
\* a pattern without the g flag and a text that holds it twice
C5_Witness ==
  /\ call.op = "redact" /\ Len(this.envValues) = 0
  /\ Len(this.patterns) = 1 /\ "g" \notin this.patterns[1].pattern.flags
  /\ call.input = <<"a", "b", "x", "a", "b">>
  /\ call.ret.count = 2
  /\ ~Matches(this.patterns[1].pattern, call.ret.text)

\* C6: with labelRedactions, a redaction by the pattern named p shows in the
\* text as "[REDACTED:p]" and one of the literal of variable V as
\* "[REDACTED:env:V]": every label redact reports in matched stands in the
\* text it returns.
C6_Labels ==
  (call.op = "redact" /\ this.labelRedactions)
    => \A i \in 1..Len(call.ret.matched) :
         Includes(call.ret.text, PatternLabel(call.ret.matched[i]))

\* C7: constructing an engine with a custom pattern whose matcher is invalid
\* fails with a ConfigurationError and produces no instance: every pattern of
\* an instance that exists is a valid matcher.
C7_InvalidRejected ==
  made => \A n \in 1..Len(this.patterns) : this.patterns[n].pattern.compiles

\* C8: on a constructed engine redact, clean, hasSecrets and the stream
\* transform raise no error for any string input.
C8_NeverRaises ==
  /\ call.op # "none" => ~call.ret.threw
  /\ ~errored

\* the texts redact returns for the first k chunks written, without the
\* empty ones
RECURSIVE NonEmptyTexts(_)
NonEmptyTexts(k) ==
  IF k = 0 THEN << >>
  ELSE LET text == redact(this, written[k]).text
       IN IF text = << >> THEN NonEmptyTexts(k - 1)
          ELSE Append(NonEmptyTexts(k - 1), text)

\* C9 as stated: the stream emits redact(c1).text, ..., redact(cn).text, one
\* output for every chunk.  Stated for the default token.
C9_AsStated ==
  (piped /\ this.replacement = DEFAULT_REPLACEMENT)
    => /\ Len(emitted) = done
       /\ \A i \in 1..done : emitted[i] = redact(this, written[i]).text

\* C9: the stream emits, in arrival order, redact(ci).text for every chunk ci
\* whose redacted text is not empty, each computed from that chunk alone; a
\* chunk whose redacted text is empty brings no output.
C9_PerChunk ==
  piped => emitted = NonEmptyTexts(done)
\* three chunks transformed, one of them redacted and one empty
C9_Witness ==
  /\ piped /\ done = 3 /\ Len(emitted) = 2
  /\ \E i \in 1..3 : written[i] = << >>
  /\ \E i \in 1..3 : redact(this, written[i]).count > 0

\* C10: two consecutive chunks of which neither holds a match of a pattern or
\* an environment literal are emitted as they are, also when redact of the
\* two together finds a secret.
C10_SplitSecret ==
  (piped /\ done = Len(written)
   /\ \A i \in 1..done : written[i] # << >> /\ NothingMatches(written[i]))
    => emitted = written
\* a secret split over two chunks has gone through
C10_Witness ==
  /\ piped /\ done = 2 /\ Len(written) = 2
  /\ \A i \in 1..2 : written[i] # << >> /\ NothingMatches(written[i])
  /\ redact(this, written[1] \o written[2]).count > 0
  /\ emitted = written

\* the instance as the constructor made it from what it was given
AsConstructed ==
  Constructor(given.opts, KeyObjects, given.env, given.lastIndex).this

\* the texts redact returns for the first k chunks written when it is given
\* the instance e, without the empty ones
RECURSIVE EmittedBy(_, _)
EmittedBy(e, k) ==
  IF k = 0 THEN << >>
  ELSE LET text == redact(e, written[k]).text
       IN IF text = << >> THEN EmittedBy(e, k - 1)
          ELSE Append(EmittedBy(e, k - 1), text)

\* C11: process.env is read during construction and never after: whatever
\* is added to, changed in or deleted from the environment afterwards,
\* envValues stays what the constructor made of the environment it saw, and
\* every redact, clean, hasSecrets and stream output is the one of that
\* instance.
C11_ReadOnce ==
  made =>
    /\ this.envValues = AsConstructed.envValues
    /\ call.op = "redact" => call.ret = redact(AsConstructed, call.input)
    /\ call.op = "clean" => call.ret = clean(AsConstructed, call.input)
    /\ call.op = "hasSecrets" => call.ret = hasSecrets(AsConstructed, call.input)
    /\ emitted = EmittedBy(AsConstructed, done)
\* the environment has changed since the construction so that a new scan
\* would find other literals, and a redact and a chunk have used the old ones
C11_Witness ==
  /\ made /\ given.opts.scanEnv /\ env # given.env
  /\ Constructor(given.opts, KeyObjects, env, lastIndex).this.envValues
       # this.envValues
  /\ call.op = "redact" /\ call.ret.count > 0
  /\ call.ret # redact(Constructor(given.opts, KeyObjects, env, lastIndex).this,
                       call.input)
  /\ done > 0 /\ emitted # written

\* the name key is matched by one of the default key matchers or by one of
\* the matchers the caller supplied
NameMatched(key) ==
  \/ \E k \in 1..Len(SECRET_ENV_KEY_PATTERNS) :
       Matches(SECRET_ENV_KEY_PATTERNS[k], key)
  \/ \E k \in 1..Len(given.opts.envKeyPatterns) :
       Matches(KeyObjects[given.opts.envKeyPatterns[k]], key)

\* the pair of the entry e is in envValues
InEnvValues(e) ==
  \E n \in 1..Len(this.envValues) :
    this.envValues[n].value = e.value /\ this.envValues[n].key = e.key

\* C12: with scanEnv, a variable of the environment the constructor saw whose
\* value is at least minEnvValueLength long has its pair in envValues if and
\* only if its name is matched by a default or a supplied key matcher,
\* whatever was tested before it and whatever the flags of the matchers.
C12_KeyMatch ==
  (made /\ given.opts.scanEnv)
    => \A n \in 1..Len(given.env) :
         Len(given.env[n].value) >= this.minEnvValueLength
           => (InEnvValues(given.env[n]) <=> NameMatched(given.env[n].key))

\* C13: with minEnvValueLength m (8 when none is given), no value shorter
\* than m is in envValues, also when its name matches a key matcher, and a
\* variable with a matching name and a value of exactly m characters is in
\* envValues.
C13_MinLength ==
  (made /\ given.opts.scanEnv)
    => LET m == IF given.opts.minEnvValueLength # 0
                THEN given.opts.minEnvValueLength
                ELSE DEFAULT_MIN_ENV_VALUE_LENGTH
       IN /\ this.minEnvValueLength = m
          /\ \A n \in 1..Len(this.envValues) :
               Len(this.envValues[n].value) >= m
          /\ \A n \in 1..Len(given.env) :
               (Len(given.env[n].value) = m /\ NameMatched(given.env[n].key))
                 => InEnvValues(given.env[n])

C15_Convenience ==
  /\ call.op = "clean"
       => (~call.ret.threw /\ call.ret.value = redact(this, call.input).text)
  /\ call.op = "hasSecrets"
       => (~call.ret.threw
           /\ call.ret.value = (redact(this, call.input).count > 0))
\* hasSecrets has answered true for a text with two secrets
C15_Witness ==
  /\ call.op = "hasSecrets" /\ call.ret.value
  /\ redact(this, call.input).count = 2
  /\ Len(this.patterns) > 0

\* what stands for a match of pattern i: the token, or the label of i
ReplacementOf(i) ==
  IF this.labelRedactions THEN PatternLabel(this.patterns[i].name)
  ELSE this.replacement

\* the text t is one span that pattern i matches as a whole, no pattern
\* before i matches in it, a pattern after i matches in it too, and no
\* pattern after i matches in what stands for the match
MatchedTwice(i, t) ==
  /\ Len(t) > 0 /\ MatchAt(this.patterns[i].pattern, t, 1) = Len(t)
  /\ \A k \in 1..(i - 1) : ~Matches(this.patterns[k].pattern, t)
  /\ \E j \in (i + 1)..Len(this.patterns) : Matches(this.patterns[j].pattern, t)
  /\ \A j \in (i + 1)..Len(this.patterns) :
       ~Matches(this.patterns[j].pattern, ReplacementOf(i))

\* C16: patterns are applied in the configured order, each to the text the
\* one before left: a span matched by pattern i and by a later pattern j,
\* whose replacement pattern j does not match, is redacted once, counted
\* once, and matched holds the name of pattern i alone.
C16_FirstPatternWins ==
  \A i \in 1..Len(this.patterns) :
    (call.op = "redact" /\ Len(this.envValues) = 0
     /\ MatchedTwice(i, call.input))
      => (call.ret.count = 1
          /\ call.ret.matched = <<this.patterns[i].name>>)

\* the text t is one span that pattern i alone matches, and as a whole; an
\* environment literal lies in it; what stands for the match holds no
\* environment literal and no match of a pattern
LiteralInsideMatch(i, t) ==
  /\ Len(t) > 0 /\ MatchAt(this.patterns[i].pattern, t, 1) = Len(t)
  /\ \A k \in 1..Len(this.patterns) :
       k # i => ~Matches(this.patterns[k].pattern, t)
  /\ \E n \in 1..Len(this.envValues) : Includes(t, this.envValues[n].value)
  /\ NothingMatches(ReplacementOf(i))

\* C17: the environment layer works on the text the pattern layer left: an
\* environment literal inside a span a pattern has replaced is not seen by
\* it, the secret counts 1, and matched gets no env label for it.
C17_PatternsBeforeEnv ==
  \A i \in 1..Len(this.patterns) :
    (call.op = "redact" /\ LiteralInsideMatch(i, call.input))
      => (call.ret.count = 1
          /\ call.ret.matched = <<this.patterns[i].name>>)

\* where the characters of value stand in text
LiteralTable(value, text) ==
  [i \in 1..(Len(text) + 1) |->
     IF i + Len(value) - 1 <= Len(text)
        /\ SubSeq(text, i, i + Len(value) - 1) = value
     THEN Len(value) ELSE -1]

\* the entries of envValues, longest value first, equally long ones in the
\* order of envValues: the first longest entry, then the rest
RECURSIVE ByLength(_)
ByLength(entries) ==
  IF entries = << >> THEN << >>
  ELSE LET n == CHOOSE n \in 1..Len(entries) :
                  /\ \A k \in 1..Len(entries) :
                       Len(entries[k].value) <= Len(entries[n].value)
                  /\ \A k \in 1..(n - 1) :
                       Len(entries[k].value) < Len(entries[n].value)
       IN <<entries[n]>>
          \o ByLength(SubSeq(entries, 1, n - 1)
                      \o SubSeq(entries, n + 1, Len(entries)))

\* acc after the occurrences M of something labelled label have been
\* replaced by rep and counted; a label is recorded once
Tallied(acc, M, rep, label) ==
  IF CountFrom(M, 1) = 0 THEN acc
  ELSE [text |-> ReplaceAllFrom(M, acc.text, rep, 1),
        count |-> acc.count + CountFrom(M, 1),
        matched |-> IF Has(acc.matched, label) THEN acc.matched
                    ELSE Append(acc.matched, label)]

\* the occurrences of the patterns from pattern n on, in configured order,
\* and then of the literals of sorted from entry n on
RECURSIVE TallyPatterns(_, _), TallyLiterals(_, _, _)
TallyPatterns(n, acc) ==
  IF n > Len(this.patterns) THEN acc
  ELSE LET next == Tallied(acc, MatchTable(this.patterns[n].pattern, acc.text),
                           ReplacementOf(n), this.patterns[n].name)
       IN IF next.count = acc.count THEN TallyPatterns(n + 1, acc)
          ELSE TallyPatterns(n + 1, next)
TallyLiterals(sorted, n, acc) ==
  IF n > Len(sorted) THEN acc
  ELSE LET next == Tallied(acc, LiteralTable(sorted[n].value, acc.text),
                           IF this.labelRedactions
                           THEN EnvRedacted(sorted[n].key)
                           ELSE this.replacement,
                           EnvLabel(sorted[n].key))
       IN IF next.count = acc.count THEN TallyLiterals(sorted, n + 1, acc)
          ELSE TallyLiterals(sorted, n + 1, next)

\* C18: count is the number of occurrences replaced by the pattern layer
\* plus the number replaced by the environment layer; matched holds each
\* label once, in the order first seen: the names of the patterns that
\* matched, in configured order, then the env labels of the literals that
\* matched, longest value first.
C18_CountAndMatched ==
  call.op = "redact" =>
    LET tally == TallyLiterals(ByLength(this.envValues), 1,
                   TallyPatterns(1, [text |-> call.input, count |-> 0,
                                     matched |-> << >>]))
    IN /\ call.ret.count = tally.count
       /\ call.ret.matched = tally.matched
       /\ \A i, j \in 1..Len(call.ret.matched) :
            call.ret.matched[i] = call.ret.matched[j] => i = j
\* two literals have matched, the longer one the later in envValues
C18_Witness ==
  /\ call.op = "redact" /\ call.ret.count = 2
  /\ \E n, k \in 1..Len(this.envValues) :
       /\ n < k
       /\ Len(this.envValues[n].value) < Len(this.envValues[k].value)
       /\ call.ret.matched = <<EnvLabel(this.envValues[k].key),
                               EnvLabel(this.envValues[n].key)>>

C20_ResultShape ==
  call.op = "redact" =>
    /\ call.ret.count >= 0
    /\ (call.ret.count = 0) <=> (call.ret.matched = << >>)
    /\ Len(call.ret.matched) <= call.ret.count
    /\ call.ret.count = 0 => call.ret.text = call.input
\* a result with fewer labels than occurrences, and one with the text
\* unchanged though count is not 0
C20_Witness ==
  /\ call.op = "redact" /\ prev.op = "redact"
  /\ Len(prev.ret.matched) < prev.ret.count
  /\ Len(this.envValues) > 0
  /\ call.ret.count > 0 /\ call.ret.text = call.input

=============================================================================
